---- MODULE Spec2Model ----
(***************************************************************************)
(* Model of command/harness/destroy.go: the retry driver HandleDestroy and *)
(* the single destroy attempt handleDestroy, together with the             *)
(* collaborators they call (stage owner store, pool manager, lite engine   *)
(* client, metrics, envState registry, exponential backoff).               *)
(*                                                                         *)
(* Every collaborator call is one atomic step of the calling goroutine, so *)
(* that concurrent HandleDestroy calls interleave between calls.           *)
(***************************************************************************)
EXTENDS Integers, Sequences, FiniteSets, TLC

\* ------------------------------------------------------------------ bounds
\* NextBackOff returns backoff.Stop at the latest on its MaxQueries-th call
\* (the elapsed time has then passed destroyTimeout).
MaxQueries == 3
\* At most MaxFaults transient collaborator failures are injected in a run.
MaxFaults == 2

\* ------------------------------------------------------------ value spaces
Calls == {"c1", "c2"}
Stages == {"s1", "s2"}
Pools == {"p1", "p2"}
\* usage percentages the lite engine reports in this model
Pcts == {95}
\* usage percentages around every threshold of the classification, with the
\* ends of the range
PctSamples == {0, 49, 50, 51, 69, 70, 71, 89, 90, 91, 100}

NoRec == "norec"
NoInst == [ID |-> "none", Pool |-> "none"]
NoArgs == [pool |-> "none", id |-> "none"]
NoStats == [cpu |-> -1, mem |-> -1]

Nil == [kind |-> "nil", cause |-> "none", attempt |-> 0]
Pending == [kind |-> "pending", cause |-> "none", attempt |-> 0]

\* ierrors.NewBadRequestError
NewBadRequestError == [kind |-> "BadRequest", cause |-> "none", attempt |-> 0]

\* errors returned by the collaborators themselves
StoreErr == [kind |-> "store_err", cause |-> "none", attempt |-> 0]
StoreNotFound == [kind |-> "store_notfound", cause |-> "none", attempt |-> 0]
PoolErr == [kind |-> "pool_err", cause |-> "none", attempt |-> 0]
PoolNotFound == [kind |-> "pool_notfound", cause |-> "none", attempt |-> 0]
\* ctx.Err() of a cancelled context, as returned by a call that honours it
CtxErr == [kind |-> "ctx_canceled", cause |-> "none", attempt |-> 0]

\* variant: a missing record is not an error either
Wrap_NotFoundOk(e, a) ==
  IF e = Nil \/ e.kind = "store_notfound" THEN Nil
  ELSE [kind |-> "find", cause |-> e.kind, attempt |-> a]

\* errors.Wrap of github.com/pkg/errors: wrapping a nil error yields nil.
Wrap(e, a) ==
  IF e = Nil THEN Nil ELSE [kind |-> "find", cause |-> e.kind, attempt |-> a]

\* fmt.Errorf("...: %w", err) always yields an error.
Errorf(k, e, a) == [kind |-> k, cause |-> e.kind, attempt |-> a]

\* thresholds of the usage classification
Ge50 == 50
Ge70 == 70
Ge90 == 90

\* variant: the thresholds are exclusive
Classify_Exclusive(pct) ==
  [ge50 |-> pct > Ge50,
   ge70 |-> pct > Ge50 /\ pct > Ge70,
   ge90 |-> pct > Ge50 /\ pct > Ge70 /\ pct > Ge90]

\* lines 104-122: the nested comparisons of one usage percentage
Classify(pct) ==
  [ge50 |-> pct >= Ge50,
   ge70 |-> pct >= Ge50 /\ pct >= Ge70,
   ge90 |-> pct >= Ge50 /\ pct >= Ge70 /\ pct >= Ge90]

NoFlags == [ge50 |-> FALSE, ge70 |-> FALSE, ge90 |-> FALSE]

\* ---------------------------------------------------------------- state
VARIABLES
  pc,           \* position of each HandleDestroy call
  req,          \* the VMCleanupRequest of each call
  cnt,          \* HandleDestroy: retry counter
  duration,     \* HandleDestroy: last value of b.NextBackOff()
  entity,       \* handleDestroy: poolID := entity.PoolName (NoRec before)
  inst,         \* handleDestroy: resolved instance
  err,          \* error of the attempt under way
  result,       \* what HandleDestroy returned
  store,        \* StageOwnerStore: stage id -> pool name
  registry,     \* envState(): stage ids that have an entry
  pool,         \* pool manager: stage id -> live instance
  missingAsNil, \* the store answers a missing record with (nil, nil)
  faults,       \* transient collaborator failures injected so far
  log,          \* per call: the calls made to each collaborator so far
  att,          \* per call: what the attempt under way has done
  errs,         \* per call: the errors of the failed attempts, in order
  dup,          \* per call: issued after a successful destroy of its stage
  cancelled,    \* per call: the caller's ctx has been cancelled
  live0         \* per call: record and instance existed when it was issued

vars == <<pc, req, cnt, duration, entity, inst, err, result, store, registry,
          pool, missingAsNil, faults, log, att, errs, dup, cancelled, live0>>

ZeroLog ==
  [queries |-> 0, sleeps |-> 0, attempts |-> 0, find |-> 0, getinst |-> 0,
   getclient |-> 0, cleanup |-> FALSE, observed |-> FALSE, pmdestroy |-> 0,
   pmok |-> 0, regdel |-> 0, sdel |-> 0, sdelfail |-> 0, succ |-> 0]

NewAttempt ==
  [findNone |-> FALSE, resolved |-> FALSE, leFailed |-> FALSE, pm |-> 0,
   pmArgs |-> NoArgs, pmOk |-> FALSE, regdel |-> 0, sdel |-> 0,
   stats |-> NoStats, cpu |-> NoFlags, mem |-> NoFlags, labels |-> "none",
   lookupPool |-> "none", client |-> FALSE, cleanup |-> FALSE,
   observed |-> FALSE]

InstanceOf(s) == [ID |-> IF s = "s1" THEN "i1" ELSE "i2",
                  Pool |-> IF s = "s1" THEN "p1" ELSE "p2"]

Requests ==
  [PoolID : Pools, StageRuntimeID : Stages \cup {""}]

Init ==
  /\ pc = [p \in Calls |-> "idle"]
  /\ req \in {r \in [Calls -> Requests] :
                /\ r["c1"].StageRuntimeID \in {"", "s1"}
                /\ r["c1"].PoolID = "p1"
                /\ r["c2"].StageRuntimeID \in {"s1", "s2"}
                /\ r["c2"].PoolID = "p2"}
  /\ cnt = [p \in Calls |-> 0]
  /\ duration = [p \in Calls |-> "none"]
  /\ entity = [p \in Calls |-> NoRec]
  /\ inst = [p \in Calls |-> NoInst]
  /\ err = [p \in Calls |-> Nil]
  /\ result = [p \in Calls |-> Pending]
  \* s2 is provisioned; s1 is either provisioned or still being provisioned
  \* (its session state is registered, its owner record is not yet written).
  /\ \E s1bound \in BOOLEAN :
       /\ store = [s \in Stages |->
                     IF s = "s2" \/ s1bound THEN InstanceOf(s).Pool ELSE NoRec]
       /\ pool = [s \in Stages |->
                     IF s = "s2" \/ s1bound THEN InstanceOf(s) ELSE NoInst]
  /\ registry = Stages
  /\ missingAsNil \in BOOLEAN
  /\ faults = 0
  /\ log = [p \in Calls |-> ZeroLog]
  /\ att = [p \in Calls |-> NewAttempt]
  /\ errs = [p \in Calls |-> <<>>]
  /\ dup = [p \in Calls |-> FALSE]
  /\ cancelled = [p \in Calls |-> FALSE]
  /\ live0 = [p \in Calls |-> FALSE]

Bump(p, f) == [log EXCEPT ![p][f] = @ + 1]

\* A collaborator call of p may fail transiently while the budget lasts; when
\* both calls are for the same stage the transient failures hit call c1 only;
\* a run has transient failures or a cancelled ctx, not both.
CanFail(p) ==
  /\ faults < MaxFaults
  /\ \A q \in Calls : ~cancelled[q]
  /\ p = "c1" \/ req["c1"].StageRuntimeID # req[p].StageRuntimeID

\* the stage of call p was destroyed by an earlier call that returned success,
\* and its owner record and its instance are gone
Decommissioned(p) ==
  LET id == req[p].StageRuntimeID IN
  /\ id \in Stages
  /\ \E q \in Calls \ {p} : req[q].StageRuntimeID = id /\ result[q] = Nil
  /\ store[id] = NoRec
  /\ pool[id] = NoInst

\* the owner record and the instance of the stage of call p exist
Provisioned(p) ==
  LET id == req[p].StageRuntimeID IN
  id \in Stages /\ store[id] # NoRec /\ pool[id] # NoInst

\* ------------------------------------------------------- HandleDestroy
\* variant: the empty stage id is not rejected
Validate_NoCheck(p) ==
  /\ pc[p] = "idle"
  /\ pc' = [pc EXCEPT ![p] = "backoff"]
  /\ cnt' = [cnt EXCEPT ![p] = 0]
  /\ dup' = [dup EXCEPT ![p] = Decommissioned(p)]
  /\ live0' = [live0 EXCEPT ![p] = Provisioned(p)]
  /\ UNCHANGED <<req, duration, entity, inst, err, result, store, registry,
                 pool, missingAsNil, faults, log, att, errs, cancelled>>

\* lines 34-40: validation, cnt := 0, b := createBackoff(destroyTimeout)
Validate(p) ==
  /\ pc[p] = "idle"
  /\ IF req[p].StageRuntimeID = ""
       THEN /\ result' = [result EXCEPT ![p] = NewBadRequestError]
            /\ pc' = [pc EXCEPT ![p] = "done"]
       ELSE /\ pc' = [pc EXCEPT ![p] = "backoff"]
            /\ UNCHANGED result
  /\ cnt' = [cnt EXCEPT ![p] = 0]
  /\ dup' = [dup EXCEPT ![p] = Decommissioned(p)]
  /\ live0' = [live0 EXCEPT ![p] = Provisioned(p)]
  /\ UNCHANGED <<req, duration, entity, inst, err, store, registry, pool,
                 missingAsNil, faults, log, att, errs, cancelled>>

\* createBackoff / ExponentialBackOff.NextBackOff: the first query, made
\* right after construction, yields a wait; a later one yields a wait or Stop,
\* and the MaxQueries-th one yields Stop.
BackoffValues(n) ==
  IF n = 0 /\ MaxQueries > 1 THEN {"wait"}
  ELSE IF n + 1 >= MaxQueries THEN {"Stop"}
  ELSE {"wait", "Stop"}

\* line 42: duration := b.NextBackOff(), then the attempt starts (line 43)
\* variant: the policy is queried only after a failed attempt
NextBackOff_AfterFailure(p) ==
  /\ pc[p] = "backoff"
  /\ IF cnt[p] = 0
       THEN /\ log' = Bump(p, "attempts")
            /\ UNCHANGED duration
       ELSE /\ \E d \in BackoffValues(log[p].queries) :
                 duration' = [duration EXCEPT ![p] = d]
            /\ log' = [log EXCEPT ![p].queries = @ + 1, ![p].attempts = @ + 1]
  /\ err' = [err EXCEPT ![p] = Nil]
  /\ pc' = [pc EXCEPT ![p] = "find"]
  /\ UNCHANGED <<req, cnt, entity, inst, result, store, registry, pool,
                 missingAsNil, faults, att, errs, dup, cancelled,
                 live0>>

NextBackOff(p) ==
  /\ pc[p] = "backoff"
  /\ \E d \in BackoffValues(log[p].queries) :
       duration' = [duration EXCEPT ![p] = d]
  /\ log' = [log EXCEPT ![p].queries = @ + 1, ![p].attempts = @ + 1]
  /\ err' = [err EXCEPT ![p] = Nil]
  /\ pc' = [pc EXCEPT ![p] = "find"]
  /\ UNCHANGED <<req, cnt, entity, inst, result, store, registry, pool,
                 missingAsNil, faults, att, errs, dup, cancelled,
                 live0>>

\* -------------------------------------------------------- handleDestroy
StoreGet(id) == IF id \in DOMAIN store THEN store[id] ELSE NoRec

\* s.Find: what the store can answer, as <<entity, error, is a fault>>
FindOutcomes(p, id) ==
  (IF StoreGet(id) # NoRec
     THEN {<<StoreGet(id), Nil, FALSE>>}
     ELSE IF missingAsNil THEN {<<NoRec, Nil, FALSE>>}
          ELSE {<<NoRec, StoreNotFound, FALSE>>})
  \cup (IF CanFail(p) THEN {<<NoRec, StoreErr, TRUE>>} ELSE {})
  \cup (IF cancelled[p] THEN {<<NoRec, CtxErr, FALSE>>} ELSE {})

\* variant: a stage that cannot be resolved has its bookkeeping retired
AfterLookupFailure_Retire == "regdel"

\* lines 64, 80, 83: a failed lookup ends the attempt
AfterLookupFailure == "ret"

\* lines 62-66
Find(p) ==
  /\ pc[p] = "find"
  /\ \E out \in FindOutcomes(p, req[p].StageRuntimeID) :
       /\ faults' = IF out[3] THEN faults + 1 ELSE faults
       /\ IF out[2] # Nil \/ out[1] = NoRec
            THEN /\ err' = [err EXCEPT ![p] = Wrap(out[2], cnt[p])]
                 /\ att' = [att EXCEPT ![p].findNone = TRUE]
                 /\ pc' = [pc EXCEPT ![p] = AfterLookupFailure]
                 /\ UNCHANGED entity
            ELSE /\ entity' = [entity EXCEPT ![p] = out[1]]
                 /\ pc' = [pc EXCEPT ![p] = "getinst"]
                 /\ UNCHANGED <<err, att>>
  /\ log' = Bump(p, "find")
  /\ UNCHANGED <<req, cnt, duration, inst, result, store, registry, pool,
                 missingAsNil, errs, dup, cancelled,
                 live0>>

\* poolManager.GetInstanceByStageID(ctx, poolID, stage): the live instance of
\* that stage in that pool, or none.
Lookup(poolID, id) ==
  IF id \in DOMAIN pool /\ pool[id] # NoInst /\ pool[id].Pool = poolID
    THEN pool[id] ELSE NoInst

GetInstOutcomes(p, poolID, id) ==
  {<<Lookup(poolID, id), Nil, FALSE>>}
  \cup (IF CanFail(p) THEN {<<NoInst, PoolErr, TRUE>>} ELSE {})
  \cup (IF cancelled[p] THEN {<<NoInst, CtxErr, FALSE>>} ELSE {})

\* variant: the pool named by the request is used
LookupPool_Request(p) == req[p].PoolID

\* the pool the attempt looks the instance up in: poolID := entity.PoolName
LookupPool(p) == entity[p]

\* lines 78-84
GetInstanceByStageID(p) ==
  /\ pc[p] = "getinst"
  /\ \E out \in GetInstOutcomes(p, LookupPool(p), req[p].StageRuntimeID) :
       /\ faults' = IF out[3] THEN faults + 1 ELSE faults
       /\ IF out[2] # Nil
            THEN /\ err' = [err EXCEPT ![p] = Errorf("getinst", out[2], cnt[p])]
                 /\ pc' = [pc EXCEPT ![p] = AfterLookupFailure]
                 /\ att' = [att EXCEPT ![p].lookupPool = LookupPool(p)]
                 /\ UNCHANGED inst
            ELSE IF out[1] = NoInst
            THEN /\ err' = [err EXCEPT ![p] = Errorf("instnotfound", Nil, cnt[p])]
                 /\ pc' = [pc EXCEPT ![p] = AfterLookupFailure]
                 /\ att' = [att EXCEPT ![p].lookupPool = LookupPool(p)]
                 /\ UNCHANGED inst
            ELSE /\ inst' = [inst EXCEPT ![p] = out[1]]
                 /\ att' = [att EXCEPT ![p].resolved = TRUE,
                                       ![p].lookupPool = LookupPool(p)]
                 /\ pc' = [pc EXCEPT ![p] = "getclient"]
                 /\ UNCHANGED err
  /\ log' = Bump(p, "getinst")
  /\ UNCHANGED <<req, cnt, duration, entity, result, store, registry, pool,
                 missingAsNil, errs, dup, cancelled,
                 live0>>

\* variant: a failed cleanup ends the attempt
AfterCleanupFailure_Abort == "ret"

\* where the attempt goes when the lite engine cleanup did not work
AfterCleanupFailure == "pmdestroy"

\* lines 91-94: lehelper.GetClient; a failure is logged only
GetClient(p) ==
  /\ pc[p] = "getclient"
  /\ \/ /\ pc' = [pc EXCEPT ![p] = "ledestroy"]
        /\ att' = [att EXCEPT ![p].client = TRUE]
        /\ UNCHANGED faults
     \/ /\ CanFail(p)
        /\ faults' = faults + 1
        /\ att' = [att EXCEPT ![p].leFailed = TRUE]
        /\ pc' = [pc EXCEPT ![p] = AfterCleanupFailure]
  /\ log' = Bump(p, "getclient")
  /\ UNCHANGED <<req, cnt, duration, entity, inst, err, result, store,
                 registry, pool, missingAsNil, errs, dup, cancelled,
                 live0>>

\* variant: the cleanup call is issued on the caller's context
CleanupCtxCancelled_Caller(p) == cancelled[p]

\* line 96: the cleanup call is issued on context.Background(), which is never
\* cancelled
CleanupCtxCancelled(p) == FALSE

\* lines 103-131: a response with OSStats is classified, observed in the two
\* metrics with the labels (poolID, OS, arch, provider), and logged
ObserveStats(p, c, m) ==
  /\ pc[p] = "ledestroy"
  /\ ~CleanupCtxCancelled(p)
  /\ att' = [att EXCEPT ![p].stats = [cpu |-> c, mem |-> m],
                        ![p].cpu = Classify(c),
                        ![p].mem = Classify(m),
                        ![p].labels = entity[p],
                        ![p].cleanup = TRUE,
                        ![p].observed = TRUE]
  /\ log' = [log EXCEPT ![p].cleanup = TRUE, ![p].observed = TRUE]
  /\ pc' = [pc EXCEPT ![p] = "pmdestroy"]
  /\ UNCHANGED <<req, cnt, duration, entity, inst, err, result, store,
                 registry, pool, missingAsNil, faults, errs, dup, cancelled,
                 live0>>

\* lines 96-131: client.Destroy on context.Background(); its error is logged
\* only; a response with OSStats is classified and observed in the metrics.
ClientDestroy(p) ==
  /\ pc[p] = "ledestroy"
  /\ \/ \* the context of the call is cancelled: the agent is not reached
        /\ CleanupCtxCancelled(p)
        /\ att' = [att EXCEPT ![p].leFailed = TRUE]
        /\ pc' = [pc EXCEPT ![p] = AfterCleanupFailure]
        /\ UNCHANGED <<req, cnt, duration, entity, inst, err, result, store,
                       registry, pool, missingAsNil, faults, errs, dup,
                       cancelled, live0, log>>
     \/ \* destroyErr # nil, no response
        /\ ~CleanupCtxCancelled(p)
        /\ CanFail(p)
        /\ faults' = faults + 1
        /\ att' = [att EXCEPT ![p].leFailed = TRUE, ![p].cleanup = TRUE]
        /\ log' = [log EXCEPT ![p].cleanup = TRUE]
        /\ pc' = [pc EXCEPT ![p] = AfterCleanupFailure]
        /\ UNCHANGED <<req, cnt, duration, entity, inst, err, result, store,
                       registry, pool, missingAsNil, errs, dup, cancelled,
                       live0>>
     \/ \* response without OSStats
        /\ ~CleanupCtxCancelled(p)
        /\ att' = [att EXCEPT ![p].cleanup = TRUE]
        /\ log' = [log EXCEPT ![p].cleanup = TRUE]
        /\ pc' = [pc EXCEPT ![p] = "pmdestroy"]
        /\ UNCHANGED <<req, cnt, duration, entity, inst, err, result, store,
                       registry, pool, missingAsNil, faults, errs, dup,
                       cancelled, live0>>
     \/ \* response with OSStats
        \E c \in Pcts, m \in Pcts : ObserveStats(p, c, m)

\* the arguments of poolManager.Destroy(ctx, poolID, inst.ID)
DestroyArgs(p) == [pool |-> entity[p], id |-> inst[p].ID]

\* the stage whose live instance has that id in that pool, if any
Live(a) == {s \in Stages : pool[s] # NoInst /\ pool[s].ID = a.id
                                            /\ pool[s].Pool = a.pool}

\* variant: the bookkeeping is retired although the termination failed
AfterDestroyFailure_Retire == "regdel"

\* where the attempt goes when poolManager.Destroy returned an error
AfterDestroyFailure == "ret"

\* variant: the registry entry is not retired
AfterDestroySuccess_SkipRegistry == "sdel"

\* lines 139-141: a successful termination is followed by envState().Delete
AfterDestroySuccess == "regdel"

\* lines 136-139
PoolDestroy(p) ==
  /\ pc[p] = "pmdestroy"
  /\ LET a == DestroyArgs(p) IN
     \/ \* the instance is live and gets terminated
        /\ Live(a) # {}
        /\ pool' = [s \in Stages |-> IF s \in Live(a) THEN NoInst ELSE pool[s]]
        /\ att' = [att EXCEPT ![p].pm = @ + 1, ![p].pmArgs = a, ![p].pmOk = TRUE]
        /\ log' = [log EXCEPT ![p].pmdestroy = @ + 1, ![p].pmok = @ + 1]
        /\ pc' = [pc EXCEPT ![p] = AfterDestroySuccess]
        /\ UNCHANGED <<err, faults>>
     \/ \* the instance is gone already
        /\ Live(a) = {}
        /\ err' = [err EXCEPT ![p] = Errorf("destroy", PoolNotFound, cnt[p])]
        /\ att' = [att EXCEPT ![p].pm = @ + 1, ![p].pmArgs = a]
        /\ log' = Bump(p, "pmdestroy")
        /\ pc' = [pc EXCEPT ![p] = AfterDestroyFailure]
        /\ UNCHANGED <<pool, faults>>
     \/ \* the termination fails, the instance stays
        /\ CanFail(p)
        /\ faults' = faults + 1
        /\ err' = [err EXCEPT ![p] = Errorf("destroy", PoolErr, cnt[p])]
        /\ att' = [att EXCEPT ![p].pm = @ + 1, ![p].pmArgs = a]
        /\ log' = Bump(p, "pmdestroy")
        /\ pc' = [pc EXCEPT ![p] = AfterDestroyFailure]
        /\ UNCHANGED pool
     \/ \* the caller's ctx is cancelled and the pool manager honours it
        /\ cancelled[p]
        /\ err' = [err EXCEPT ![p] = Errorf("destroy", CtxErr, cnt[p])]
        /\ att' = [att EXCEPT ![p].pm = @ + 1, ![p].pmArgs = a]
        /\ log' = Bump(p, "pmdestroy")
        /\ pc' = [pc EXCEPT ![p] = AfterDestroyFailure]
        /\ UNCHANGED <<pool, faults>>
  /\ UNCHANGED <<req, cnt, duration, entity, inst, result, store, registry,
                 missingAsNil, errs, dup, cancelled,
                 live0>>

\* variant: the whole registry is cleared
EnvStateDelete_Clear(id) == {}

\* variant: the registry entry is left behind
EnvStateDelete_Noop(id) == registry

\* envState().Delete(id): deleting a missing key is a no-op
EnvStateDelete(id) == registry \ {id}

\* line 141
RegistryDelete(p) ==
  /\ pc[p] = "regdel"
  /\ registry' = EnvStateDelete(req[p].StageRuntimeID)
  /\ att' = [att EXCEPT ![p].regdel = @ + 1]
  /\ log' = Bump(p, "regdel")
  /\ pc' = [pc EXCEPT ![p] = "sdel"]
  /\ UNCHANGED <<req, cnt, duration, entity, inst, err, result, store, pool,
                 missingAsNil, faults, errs, dup, cancelled,
                 live0>>

\* variant: the owner record is never deleted
StoreRemove_Noop(id) == store

\* s.Delete(ctx, id) when it works: the record of that stage is removed
StoreRemove(id) == [s \in Stages |-> IF s = id THEN NoRec ELSE store[s]]

\* variant: the error of s.Delete fails the attempt
AfterDeleteFailure_Fatal(p, e) == Errorf("delete", e, cnt[p])

\* the error handleDestroy returns when s.Delete failed: none, it is logged
AfterDeleteFailure(p, e) == err[p]

\* lines 143-147: s.Delete, then return inst, nil
StoreDelete(p) ==
  /\ pc[p] = "sdel"
  /\ \/ /\ store' = StoreRemove(req[p].StageRuntimeID)
        /\ log' = Bump(p, "sdel")
        /\ UNCHANGED <<faults, err>>
     \/ /\ CanFail(p)
        /\ faults' = faults + 1
        /\ log' = [log EXCEPT ![p].sdel = @ + 1, ![p].sdelfail = @ + 1]
        /\ err' = [err EXCEPT ![p] = AfterDeleteFailure(p, StoreErr)]
        /\ UNCHANGED store
     \/ \* the caller's ctx is cancelled and the store honours it
        /\ cancelled[p]
        /\ log' = [log EXCEPT ![p].sdel = @ + 1, ![p].sdelfail = @ + 1]
        /\ err' = [err EXCEPT ![p] = AfterDeleteFailure(p, CtxErr)]
        /\ UNCHANGED <<store, faults>>
  /\ att' = [att EXCEPT ![p].sdel = @ + 1]
  /\ pc' = [pc EXCEPT ![p] = "ret"]
  /\ UNCHANGED <<req, cnt, duration, entity, inst, result, registry, pool,
                 missingAsNil, errs, dup, cancelled,
                 live0>>

\* ------------------------------------------------- HandleDestroy, loop tail
\* variant: the loop keeps the error of the first failed attempt
LoopErr_First(p) == IF errs[p] # <<>> THEN errs[p][1] ELSE err[p]

\* line 43: the err the loop tests, logs and returns is the one of the attempt
\* just made
LoopErr(p) == err[p]

\* variant: the first error is returned
Returned_First(p) == IF errs[p] # <<>> THEN errs[p][1] ELSE LoopErr(p)

\* line 50: the error HandleDestroy returns once the policy has signalled Stop
Returned(p) == LoopErr(p)

\* variant: the loop goes on after a successful attempt
OnSuccess_Continue == "sleep"

\* line 56: return nil
OnSuccess == "done"

\* lines 44-56: what follows the attempt
Retry(p) ==
  /\ pc[p] = "ret"
  /\ IF LoopErr(p) # Nil
       THEN /\ errs' = [errs EXCEPT ![p] = Append(@, LoopErr(p))]
            /\ IF duration[p] = "Stop"
                 THEN /\ result' = [result EXCEPT ![p] = Returned(p)]
                      /\ pc' = [pc EXCEPT ![p] = "done"]
                 ELSE /\ pc' = [pc EXCEPT ![p] = "sleep"]
                      /\ UNCHANGED result
       ELSE /\ result' = [result EXCEPT ![p] = Nil]
            /\ pc' = [pc EXCEPT ![p] = OnSuccess]
            /\ UNCHANGED errs
  \* the locals of handleDestroy are gone once it has returned
  /\ entity' = [entity EXCEPT ![p] = NoRec]
  /\ inst' = [inst EXCEPT ![p] = NoInst]
  /\ att' = [att EXCEPT ![p] = NewAttempt]
  /\ log' = [log EXCEPT ![p].succ = IF LoopErr(p) = Nil THEN @ + 1 ELSE @]
  /\ UNCHANGED <<req, cnt, duration, err, store, registry, pool,
                 missingAsNil, faults, dup, cancelled, live0>>

\* variant: the wait races against the caller's ctx and the call returns the
\* ctx error when it is cancelled
Sleep_Interruptible(p) ==
  /\ pc[p] = "sleep"
  /\ log' = Bump(p, "sleeps")
  /\ IF cancelled[p]
       THEN /\ result' = [result EXCEPT ![p] = CtxErr]
            /\ pc' = [pc EXCEPT ![p] = "done"]
            /\ UNCHANGED cnt
       ELSE /\ cnt' = [cnt EXCEPT ![p] = @ + 1]
            /\ pc' = [pc EXCEPT ![p] = "backoff"]
            /\ UNCHANGED result
  /\ UNCHANGED <<req, duration, entity, inst, err, store, registry,
                 pool, missingAsNil, faults, att, errs, dup, cancelled,
                 live0>>

\* lines 52-54: time.Sleep(duration); cnt++; continue
Sleep(p) ==
  /\ pc[p] = "sleep"
  /\ cnt' = [cnt EXCEPT ![p] = @ + 1]
  /\ log' = Bump(p, "sleeps")
  /\ pc' = [pc EXCEPT ![p] = "backoff"]
  /\ UNCHANGED <<req, duration, entity, inst, err, result, store, registry,
                 pool, missingAsNil, faults, att, errs, dup, cancelled,
                 live0>>

\* the caller may cancel the ctx of call c1 at any point before it returns, in
\* a run without transient failures
CanCancel(p) == p = "c1" /\ faults = 0

\* the caller cancels the ctx it passed to HandleDestroy
Cancel(p) ==
  /\ CanCancel(p)
  /\ pc[p] # "done"
  /\ ~cancelled[p]
  /\ cancelled' = [cancelled EXCEPT ![p] = TRUE]
  /\ UNCHANGED <<pc, req, cnt, duration, entity, inst, err, result, store,
                 registry, pool, missingAsNil, faults, log, att, errs, dup,
                 live0>>

Step(p) ==
  \/ Validate(p)
  \/ NextBackOff(p)
  \/ Find(p)
  \/ GetInstanceByStageID(p)
  \/ GetClient(p)
  \/ ClientDestroy(p)
  \/ PoolDestroy(p)
  \/ RegistryDelete(p)
  \/ StoreDelete(p)
  \/ Retry(p)
  \/ Sleep(p)

Next == \E p \in Calls : Step(p) \/ Cancel(p)

Spec == Init /\ [][Next]_vars

\* every goroutine keeps running and every collaborator call returns
Fairness == \A p \in Calls : WF_vars(Step(p))

FairSpec == Spec /\ Fairness

\* two calls for the same stage: a duplicate or a concurrent destroy, with a
\* store that reports a missing record as an error
InitSameStage ==
  /\ Init
  /\ \A p \in Calls : req[p].StageRuntimeID = "s1"
  /\ req["c1"].PoolID = "p1"
  /\ ~missingAsNil

SameStageSpec == InitSameStage /\ [][Next]_vars /\ Fairness

\* one destroy of a provisioned stage whose lite engine reports any pair of
\* usage percentages of PctSamples
InitClassify ==
  /\ Init
  /\ req["c1"].StageRuntimeID = ""
  /\ req["c2"].StageRuntimeID = "s1"
  /\ pool["s1"] # NoInst
  /\ ~missingAsNil

NextClassify ==
  \E p \in Calls :
    \/ Step(p)
    \/ Cancel(p)
    \/ \E c, m \in PctSamples : ObserveStats(p, c, m)

ClassifySpec == InitClassify /\ [][NextClassify]_vars

\* ------------------------------------------------------------ properties
Stage(p) == req[p].StageRuntimeID
IsError(e) == e.kind \notin {"nil", "pending", "BadRequest"}
AllKind(p, k) == \A i \in 1..Len(errs[p]) : errs[p][i].kind = k

\* C1: a request with an empty StageRuntimeID is answered with the BadRequest
\* error at once: no attempt, no backoff query, no sleep and no call to the
\* store, the pool manager, the lite engine, the metrics or the registry.
C1_EmptyIdRejected ==
  \A p \in Calls :
    (Stage(p) = "" /\ pc[p] # "idle") =>
      /\ pc[p] = "done"
      /\ result[p] = NewBadRequestError
      /\ log[p] = ZeroLog
      /\ errs[p] = <<>>

C1_Witness ==
  \E p \in Calls :
    Stage(p) = "" /\ pc[p] = "done" /\ result[p] = NewBadRequestError

\* C2: in an attempt that resolved an instance and whose lite engine cleanup
\* failed, poolManager.Destroy is still called exactly once, with the record's
\* pool name and the resolved instance id, and the attempt succeeds exactly
\* when that call succeeds.
C2_CleanupFailureDoesNotStopDestroy ==
  \A p \in Calls :
    (pc[p] = "ret" /\ att[p].resolved /\ att[p].leFailed) =>
      /\ att[p].pm = 1
      /\ att[p].pmArgs = [pool |-> InstanceOf(Stage(p)).Pool,
                          id |-> InstanceOf(Stage(p)).ID]
      /\ att[p].pmArgs.id = inst[p].ID
      /\ (err[p] = Nil) <=> att[p].pmOk

C2_Witness ==
  \E p \in Calls :
    /\ pc[p] = "ret" /\ att[p].resolved /\ att[p].leFailed
    /\ att[p].pmOk /\ err[p] = Nil

\* C3: HandleDestroy returns nil only if a poolManager.Destroy call made during
\* that same call returned success.
C3_SuccessOnlyAfterTermination ==
  \A p \in Calls : result[p] = Nil => log[p].pmok >= 1

\* C4: an attempt whose s.Find returned an error or no record fails with an
\* error, also when the store returned no record and no error.
C4_LookupFailureFailsAttempt ==
  \A p \in Calls : (pc[p] = "ret" /\ att[p].findNone) => err[p] # Nil

\* C5 as stated: whenever HandleDestroy returned nil, neither the registry
\* entry nor the owner record of the stage exists.
C5_SuccessLeavesNoBookkeeping ==
  \A p \in Calls :
    result[p] = Nil => Stage(p) \notin registry /\ StoreGet(Stage(p)) = NoRec

\* C5 as amended: whenever HandleDestroy returned nil, the registry entry of
\* the stage is absent if the call terminated the instance, and the owner
\* record is absent unless the call's s.Delete failed.
C5_SuccessRetiresBookkeepingBestEffort ==
  \A p \in Calls :
    result[p] = Nil =>
      /\ log[p].pmok >= 1 => Stage(p) \notin registry
      /\ log[p].sdelfail = 0 => StoreGet(Stage(p)) = NoRec

C5_Witness ==
  \E p \in Calls :
    /\ result[p] = Nil /\ log[p].pmok = 1 /\ log[p].sdelfail = 1
    /\ Stage(p) \notin registry /\ StoreGet(Stage(p)) # NoRec

\* C6: when the only failures of a call are k failed terminations, the
\* registry delete happens at most once, and only after the (k+1)-th Destroy
\* call, which succeeded; the call then returns nil having deleted the
\* registry entry exactly once.
C6_RegistryRetiredOnceAfterSuccessfulDestroy ==
  \A p \in Calls :
    AllKind(p, "destroy") =>
      /\ log[p].regdel <= 1
      /\ log[p].regdel = 1 =>
           log[p].pmok = 1 /\ log[p].pmdestroy = Len(errs[p]) + 1
      /\ (pc[p] = "done" /\ log[p].pmok = 1) =>
           result[p] = Nil /\ log[p].regdel = 1

C6_Witness ==
  \E p \in Calls :
    /\ pc[p] = "done" /\ result[p] = Nil
    /\ Len(errs[p]) = 2 /\ AllKind(p, "destroy")
    /\ log[p].pmdestroy = 3 /\ log[p].pmok = 1 /\ log[p].regdel = 1

\* C7: when the owner lookup failed with an error in the first attempts and a
\* later attempt went through, HandleDestroy returns nil, not one of the
\* lookup errors.
C7_TransientLookupFailureNotSurfaced ==
  \A p \in Calls :
    (/\ pc[p] = "done"
     /\ errs[p] # <<>> /\ AllKind(p, "find")
     /\ log[p].pmok = 1) => result[p] = Nil

C7_Witness ==
  \E p \in Calls :
    /\ pc[p] = "done" /\ result[p] = Nil
    /\ errs[p] # <<>> /\ AllKind(p, "find") /\ log[p].pmok = 1

\* C8: an error returned by HandleDestroy is the error of the last attempt
\* made, every attempt of the call has failed, and the policy had signalled
\* Stop.
C8_LastErrorReturned ==
  \A p \in Calls :
    (pc[p] = "done" /\ IsError(result[p])) =>
      /\ duration[p] = "Stop"
      /\ Len(errs[p]) = log[p].attempts
      /\ result[p] = errs[p][Len(errs[p])]
      /\ result[p].attempt = log[p].attempts - 1

C8_Witness ==
  \E p \in Calls :
    /\ pc[p] = "done" /\ IsError(result[p])
    /\ Len(errs[p]) >= 2
    /\ errs[p][1].kind # result[p].kind

\* C9: a call issued after a successful destroy of its stage (record and
\* instance gone, the store answering a missing record with an error) never
\* returns nil: every attempt fails at the owner lookup with the not-found
\* error (or a transient store error, or the error of its own cancelled ctx),
\* and the call returns that error after at most MaxQueries attempts.
C9_Safe ==
  \A p \in Calls :
    (dup[p] /\ ~missingAsNil) =>
      /\ result[p] # Nil
      /\ \A i \in 1..Len(errs[p]) :
           /\ errs[p][i].kind = "find"
           /\ errs[p][i].cause \in {"store_notfound", "store_err", "ctx_canceled"}
      /\ log[p].getinst = 0 /\ log[p].pmdestroy = 0
      /\ log[p].attempts <= MaxQueries

C9_DuplicateDestroyFailsAndReturns ==
  /\ []C9_Safe
  /\ \A p \in Calls :
       (dup[p] /\ ~missingAsNil) ~>
         (pc[p] = "done" /\ result[p].kind = "find" /\ errs[p] # <<>>)

C9_Witness ==
  \E p \in Calls :
    /\ dup[p] /\ ~missingAsNil /\ pc[p] = "done"
    /\ result[p].kind = "find" /\ result[p].cause = "store_notfound"
    /\ Len(errs[p]) >= 2

\* C10: two calls for the same provisioned stage, with collaborators that do
\* not fail transiently: the instance is terminated exactly once, at least
\* one call returns nil, the other returns nil or a not-found error after the
\* policy signalled Stop, both calls return, and then the registry entry and
\* the owner record are gone.
SameStage == \A p, q \in Calls : Stage(p) = Stage(q)
Terminations == log["c1"].pmok + log["c2"].pmok
WasProvisioned(id) ==
  id \in Stages /\ (pool[id] # NoInst \/ \E p \in Calls : log[p].pmok >= 1)
NotFoundError(e) ==
  \/ e.kind = "find" /\ e.cause = "store_notfound"
  \/ e.kind = "instnotfound"
  \/ e.kind = "destroy" /\ e.cause = "pool_notfound"

C10_Safe ==
  (SameStage /\ WasProvisioned(Stage("c1"))) =>
    /\ Terminations <= 1
    /\ ((\A p \in Calls : pc[p] = "done" /\ ~cancelled[p]) /\ faults = 0) =>
         /\ Terminations = 1
         /\ \E p \in Calls : result[p] = Nil
         /\ \A p \in Calls :
              \/ result[p] = Nil
              \/ NotFoundError(result[p]) /\ duration[p] = "Stop"
         /\ Stage("c1") \notin registry
         /\ store[Stage("c1")] = NoRec

C10_ConcurrentDestroysTerminateOnce ==
  /\ []C10_Safe
  /\ <>(\A p \in Calls : pc[p] = "done")

C10_Witness ==
  /\ SameStage /\ faults = 0 /\ ~missingAsNil
  /\ \A p \in Calls : pc[p] = "done"
  /\ result["c1"] = Nil /\ log["c1"].pmok = 1
  /\ errs["c2"] # <<>> /\ errs["c2"][1].kind = "destroy"
  /\ errs["c2"][1].cause = "pool_notfound"
  /\ NotFoundError(result["c2"]) /\ log["c2"].pmdestroy = 1

\* C11: a call with a non-empty stage id returns an error only when the policy
\* has signalled Stop and the attempt just made failed with that error; every
\* failed attempt before it was followed by a full sleep and a new attempt,
\* whether or not the caller's ctx was cancelled meanwhile.
C11_ErrorOnlyAtStop ==
  \A p \in Calls :
    (Stage(p) # "" /\ pc[p] = "done") =>
      /\ result[p] # Nil =>
            /\ duration[p] = "Stop"
            /\ errs[p] # <<>>
            /\ result[p] = errs[p][Len(errs[p])]
            /\ log[p].attempts = Len(errs[p])
      /\ result[p] = Nil => log[p].attempts = Len(errs[p]) + 1
      /\ log[p].sleeps + 1 = log[p].attempts

C11_Witness ==
  \E p \in Calls :
    /\ cancelled[p] /\ pc[p] = "done" /\ duration[p] = "Stop"
    /\ Len(errs[p]) >= 2
    /\ errs[p][1].cause # "ctx_canceled"
    /\ result[p].cause = "ctx_canceled"

\* C12: the flags logged for a usage percentage are ge50 = (pct >= 50),
\* ge70 = (pct >= 70), ge90 = (pct >= 90), bounds included, for the CPU value
\* and for the memory value, each from its own value alone; so ge90 implies
\* ge70 and ge70 implies ge50.
C12_ThresholdsInclusive ==
  \A p \in Calls :
    att[p].stats # NoStats =>
      LET c == att[p].stats.cpu
          m == att[p].stats.mem
      IN /\ att[p].cpu = [ge50 |-> c >= 50, ge70 |-> c >= 70, ge90 |-> c >= 90]
         /\ att[p].mem = [ge50 |-> m >= 50, ge70 |-> m >= 70, ge90 |-> m >= 90]
         /\ att[p].cpu.ge90 => att[p].cpu.ge70
         /\ att[p].cpu.ge70 => att[p].cpu.ge50
         /\ att[p].mem.ge90 => att[p].mem.ge70
         /\ att[p].mem.ge70 => att[p].mem.ge50

C12_Witness ==
  \E p \in Calls :
    /\ att[p].stats = [cpu |-> 50, mem |-> 89]
    /\ att[p].cpu = [ge50 |-> TRUE, ge70 |-> FALSE, ge90 |-> FALSE]
    /\ att[p].mem = [ge50 |-> TRUE, ge70 |-> TRUE, ge90 |-> FALSE]

\* C13: within one attempt poolManager.Destroy is called only after
\* GetInstanceByStageID returned an instance without error; envState().Delete
\* and s.Delete are called only after poolManager.Destroy returned nil, the
\* registry delete first; an attempt whose termination failed retires nothing.
C13_AttemptOrder ==
  \A p \in Calls :
    /\ att[p].pm > 0 => att[p].resolved
    /\ pc[p] = "pmdestroy" => att[p].resolved
    /\ att[p].regdel > 0 => att[p].pmOk
    /\ att[p].sdel > 0 => att[p].pmOk /\ att[p].regdel > 0
    /\ (att[p].pm > 0 /\ ~att[p].pmOk) => att[p].regdel = 0 /\ att[p].sdel = 0
    /\ log[p].regdel <= log[p].pmok
    /\ log[p].sdel <= log[p].regdel

C13_Witness ==
  \E p \in Calls :
    /\ errs[p] # <<>> /\ errs[p][1].kind = "destroy"
    /\ att[p].resolved /\ att[p].pmOk
    /\ att[p].regdel = 1 /\ att[p].sdel = 1

\* C14 as claimed: a call with a non-empty stage id whose owner record and
\* instance exist when it starts has invoked client.Destroy at least once when
\* it returns, whenever its ctx was cancelled; read in the claim's favour, for
\* runs without transient collaborator failures and without a concurrent call
\* for the same stage.
C14_CleanupAlwaysTried ==
  \A p \in Calls :
    (/\ Stage(p) # "" /\ live0[p] /\ pc[p] = "done"
     /\ faults = 0
     /\ \A q \in Calls \ {p} : Stage(q) # Stage(p))
    => log[p].cleanup

\* C14 amended: in every attempt that resolved the instance and constructed
\* the lite engine client, client.Destroy is invoked, also when the caller's
\* ctx is cancelled by then; an attempt that has not reached the client has
\* made no cleanup call.
C14_CleanupTriedOnceClientBuilt ==
  \A p \in Calls :
    /\ (att[p].client /\ pc[p] # "ledestroy") => att[p].cleanup
    /\ att[p].cleanup => att[p].client /\ att[p].resolved
    /\ (log[p].getclient = 0) => ~log[p].cleanup

C14_Witness ==
  \E p \in Calls :
    /\ cancelled[p]
    /\ errs[p] # <<>> /\ errs[p][1].cause = "ctx_canceled"
    /\ att[p].client /\ att[p].cleanup /\ pc[p] = "pmdestroy"

\* C15: once s.Delete has failed (after the successful termination of that
\* attempt) the attempt returns nil and HandleDestroy returns nil without
\* another attempt: the call is at the return of that attempt or has returned,
\* no error of the deletion is in the loop, and poolManager.Destroy succeeded
\* once and is not called again.
C15_DeleteFailureIsNotFatal ==
  \A p \in Calls :
    log[p].sdelfail >= 1 =>
      /\ pc[p] \in {"ret", "done"}
      /\ pc[p] = "ret" => err[p] = Nil /\ att[p].pmOk /\ att[p].pm = 1
      /\ pc[p] = "done" => result[p] = Nil /\ log[p].succ = 1
      /\ log[p].sdelfail = 1 /\ log[p].sdel = 1 /\ log[p].pmok = 1
      /\ log[p].attempts = Len(errs[p]) + 1
      /\ \A i \in 1..Len(errs[p]) : errs[p][i].kind # "delete"

C15_Witness ==
  \E p \in Calls :
    /\ log[p].sdelfail = 1 /\ pc[p] = "done" /\ result[p] = Nil
    /\ store[Stage(p)] # NoRec /\ pool[Stage(p)] = NoInst

\* C16: a call has at most one successful attempt and returns nil right after
\* it: once an attempt succeeded the call has returned, with one attempt more
\* than it had failures and one sleep per failure; a call makes at most one
\* successful poolManager.Destroy, one envState().Delete and one s.Delete.
C16_ReturnsAtFirstSuccess ==
  \A p \in Calls :
    /\ log[p].succ <= 1
    /\ log[p].pmok <= 1 /\ log[p].regdel <= 1 /\ log[p].sdel <= 1
    /\ log[p].succ = 1 =>
         /\ pc[p] = "done" /\ result[p] = Nil
         /\ log[p].attempts = Len(errs[p]) + 1
         /\ log[p].sleeps = Len(errs[p])
         /\ log[p].find = log[p].attempts
    /\ (pc[p] = "done" /\ result[p] = Nil) => log[p].succ = 1

C16_Witness ==
  \E p \in Calls :
    /\ log[p].succ = 1 /\ Len(errs[p]) >= 1
    /\ log[p].pmok = 1 /\ log[p].regdel = 1 /\ log[p].sdel = 1

\* the failed attempts of call p so far: those the loop has seen, and the one
\* that has just returned its error
FailedAttempts(p) ==
  Len(errs[p]) + (IF pc[p] = "ret" /\ err[p] # Nil THEN 1 ELSE 0)

\* C17 as claimed: at every point of a call the number of NextBackOff queries
\* equals the number of failed attempts so far, and a call whose first attempt
\* succeeded has made no query.
C17_QueriedOnlyAfterFailure ==
  \A p \in Calls :
    /\ log[p].queries = FailedAttempts(p)
    /\ (pc[p] = "done" /\ result[p] = Nil /\ errs[p] = <<>>) =>
         log[p].queries = 0

\* C17 amended: NextBackOff is queried once before every attempt, the first
\* included: between attempts the number of queries equals the number of
\* failed attempts, during an attempt and after a successful one it is one
\* more, and a call whose first attempt succeeded has made exactly one query.
C17_QueriedBeforeEveryAttempt ==
  \A p \in Calls :
    Stage(p) # "" =>
      /\ pc[p] = "idle" => log[p].queries = 0
      /\ pc[p] \in {"backoff", "sleep"} =>
           log[p].queries = Len(errs[p]) /\ log[p].queries = log[p].find
      /\ pc[p] = "find" =>
           log[p].queries = Len(errs[p]) + 1 /\ log[p].queries = log[p].find + 1
      /\ pc[p] \in {"getinst", "getclient", "ledestroy", "pmdestroy", "regdel",
                    "sdel", "ret"} =>
           log[p].queries = Len(errs[p]) + 1 /\ log[p].queries = log[p].find
      /\ pc[p] = "done" =>
           /\ log[p].queries = log[p].find
           /\ log[p].queries = Len(errs[p]) + (IF result[p] = Nil THEN 1 ELSE 0)

C17_Witness ==
  \E p \in Calls :
    /\ pc[p] = "done" /\ result[p] = Nil /\ errs[p] = <<>>
    /\ log[p].pmok = 1 /\ log[p].queries = 1

\* C18: an attempt that returns the error of the owner lookup or of the
\* instance lookup has made no client.Destroy call, no metric observation, no
\* poolManager.Destroy call, no envState().Delete and no s.Delete; an attempt
\* that returns the error of poolManager.Destroy has made no envState().Delete
\* and no s.Delete, and the registry entry and the owner record it found are
\* still there unless another call retired them.
C18_FailedAttemptRetiresNothing ==
  \A p \in Calls :
    (pc[p] = "ret" /\ err[p] # Nil) =>
      /\ err[p].kind \in {"find", "getinst", "instnotfound", "destroy"}
      /\ att[p].regdel = 0 /\ att[p].sdel = 0
      /\ err[p].kind \in {"find", "getinst", "instnotfound"} =>
           /\ ~att[p].client /\ ~att[p].cleanup /\ ~att[p].observed
           /\ att[p].stats = NoStats
           /\ att[p].pm = 0
      /\ (err[p].kind = "destroy" /\ \A q \in Calls \ {p} : log[q].pmok = 0) =>
           /\ Stage(p) \in registry
           /\ store[Stage(p)] # NoRec

C18_Witness ==
  \E p \in Calls :
    /\ pc[p] = "ret" /\ err[p].kind = "destroy"
    /\ errs[p] # <<>> /\ errs[p][1].kind = "getinst"
    /\ att[p].cleanup /\ att[p].pm = 1
    /\ Stage(p) \in registry /\ store[Stage(p)] # NoRec

\* C19: a step changes the owner record, the instance or the registry entry of
\* a stage only if it is a step of a call for that stage: a call for stage A
\* never deletes the record or the registry entry of another stage and never
\* terminates the instance of another stage, and the instance it asks the pool
\* manager to terminate is the one resolved for A.
C19_OnlyOwnStageMutated ==
  [][\A s \in Stages :
       (\/ store'[s] # store[s]
        \/ pool'[s] # pool[s]
        \/ (s \in registry) # (s \in registry'))
       => \E p \in Calls :
            /\ pc'[p] # pc[p]
            /\ Stage(p) = s
            /\ pc[p] = "pmdestroy" => att'[p].pmArgs.id = InstanceOf(s).ID
    ]_vars

C19_Witness ==
  /\ Stage("c1") = "s1" /\ Stage("c2") = "s2"
  /\ pc["c1"] = "done" /\ result["c1"] = Nil /\ log["c1"].pmok = 1
  /\ log["c2"].find >= 1 /\ pc["c2"] = "pmdestroy"
  /\ registry = {"s2"} /\ store["s1"] = NoRec /\ pool["s1"] = NoInst
  /\ store["s2"] # NoRec /\ pool["s2"] = InstanceOf("s2")

\* C20: the pool passed to GetInstanceByStageID, the pool passed to
\* poolManager.Destroy and the pool label of the metrics are the PoolName of
\* the owner record found for the stage id, whatever PoolID the request
\* carries.
C20_RequestPoolIgnored ==
  \A p \in Calls :
    Stage(p) # "" =>
      LET poolName == InstanceOf(Stage(p)).Pool IN
      /\ entity[p] # NoRec => entity[p] = poolName
      /\ att[p].lookupPool # "none" => att[p].lookupPool = poolName
      /\ att[p].pmArgs # NoArgs => att[p].pmArgs.pool = poolName
      /\ att[p].labels # "none" => att[p].labels = poolName

C20_Witness ==
  \E p \in Calls :
    /\ Stage(p) # "" /\ req[p].PoolID # InstanceOf(Stage(p)).Pool
    /\ att[p].lookupPool = InstanceOf(Stage(p)).Pool
    /\ att[p].labels = InstanceOf(Stage(p)).Pool
    /\ att[p].pmArgs.pool = InstanceOf(Stage(p)).Pool
    /\ att[p].pmOk

====
